---- MODULE Spec2Model ----
(***************************************************************************)
(* Operation pipeline of the PDF tool services: upload intake              *)
(* (upload-service), security operations (security-service) over the      *)
(* shared artifact store (MinIO), the metadata catalog (MongoDB            *)
(* collections "files" and "security_operations") and the event publisher  *)
(* (RabbitMQ).  Every call of a handler to the catalog, the store or the    *)
(* broker is one action, taken together with the local code that leads up  *)
(* to it; requests interleave at those points.  Each such call either      *)
(* takes effect and returns, or raises and has no effect.                  *)
(***************************************************************************)
EXTENDS Naturals, Integers, Sequences, FiniteSets, TLC

VARIABLES
    files,      \* db "pdf-tools", collection "files": set of file records
    ops,        \* collection "security_operations": operation_id -> record
    store,      \* MinIO: locator <<bucket, object_name>> -> stored document
    events,     \* publish_message calls made: routing key, subject, delivered or not
    req,        \* per request: endpoint, inputs, position, locals, response
    mq          \* one service process: rabbitmq_connection, rabbitmq_channel and
                \* the broker connections that process has open or has closed

vars == <<files, ops, store, events, req, mq>>

(***************************************************************************)
(* Bounds of the model.                                                    *)
(***************************************************************************)
NumReq == 3                          \* requests received in one behaviour
Requests == 1 .. NumReq
NumPages == 3                        \* pages of an uploaded PDF document
MaxList == 3                         \* entries of a list a client sends

(***************************************************************************)
(* Program constants.                                                      *)
(***************************************************************************)
MAX_WATERMARK_TEXT_LENGTH == 100
MAX_FILE_SIZE == 16 * 1024 * 1024
ALLOWED_MIME_TYPES ==
    { "application/pdf", "image/jpeg", "image/png", "image/tiff",
      "application/vnd.openxmlformats-officedocument.wordprocessingml.document",
      "application/msword",
      "application/vnd.openxmlformats-officedocument.presentationml.presentation",
      "application/vnd.ms-powerpoint",
      "application/vnd.openxmlformats-officedocument.spreadsheetml.sheet",
      "application/vnd.ms-excel",
      "text/plain", "text/html", "text/markdown" }

\* Optional values: None or Some(x).
None == << >>
Some(x) == <<x>>
Val(o) == o[1]

\* str(uuid.uuid4()): the k-th identifier drawn by request r; distinct draws
\* give distinct identifiers.
uuid4(r, k) == <<r, k>>
UnknownId == <<0, 0>>                \* an identifier no request ever drew

(***************************************************************************)
(* Documents: what the byte content of an artifact means to the libraries. *)
(* pw = "" is an unencrypted document; marks counts the watermark overlays *)
(* merged into its pages; meta says whether it still carries metadata and  *)
(* active content.  pages is the sequence of its pages: each page is known *)
(* by the uploaded document it came from (told apart by its size), its     *)
(* number there and its rotation.  Every uploaded PDF has at least one     *)
(* page.                                                                   *)
(***************************************************************************)
Page(doc, n) == [doc |-> doc, n |-> n, rot |-> 0, marks |-> 0]
Doc(mime, size, pw) ==
    [mime |-> mime, size |-> size, pw |-> pw, marks |-> 0, meta |-> TRUE,
     pages |-> IF mime = "application/pdf"
               THEN [i \in 1 .. NumPages |-> Page(size, i)] ELSE << >>]
NoDoc == [mime |-> "", size |-> 0, pw |-> "", marks |-> 0, meta |-> FALSE,
          pages |-> << >>]
Passwords == {"", "pw1", "pw2"}
TextLengths == {0, MAX_WATERMARK_TEXT_LENGTH, MAX_WATERMARK_TEXT_LENGTH + 1}

\* Files a client may send to /upload.
UploadInputs ==
    { Doc("application/pdf", 1024, ""),
      Doc("application/pdf", MAX_FILE_SIZE, "pw1"),
      Doc("image/png", 1024, ""),
      Doc("application/x-dosexec", 1024, ""),
      Doc("application/pdf", MAX_FILE_SIZE + 1, "") }

(***************************************************************************)
(* Exceptions.  str(e) of an HTTPException is "<status>: <detail>".        *)
(***************************************************************************)
ValueError(msg) == [cls |-> "ValueError", status |-> 0, detail |-> msg]
Error(msg) == [cls |-> "Exception", status |-> 0, detail |-> msg]
HTTPException(code, msg) == [cls |-> "HTTPException", status |-> code, detail |-> msg]
NoExc == [cls |-> "", status |-> 0, detail |-> ""]
Str(e) ==
    IF e.cls = "HTTPException" THEN ToString(e.status) \o ": " \o e.detail
    ELSE e.detail

\* Response of a handler: HTTP status and, for errors, the detail.
Response(code, detail) == [code |-> code, detail |-> detail]
NoResp == Response(0, "")

(***************************************************************************)
(* Transformations (security-service).  Each returns the processed         *)
(* document or the exception it raises.                                    *)
(***************************************************************************)
Ok(doc) == [ok |-> TRUE, doc |-> doc, exc |-> NoExc]
Raise(e) == [ok |-> FALSE, doc |-> NoDoc, exc |-> e]

\* pikepdf Pdf.open(stream, password=password)
PdfOpen(content, password) ==
    IF content.mime # "application/pdf" THEN "notpdf"
    ELSE IF content.pw # "" /\ content.pw # password THEN "password"
    ELSE "ok"

PdfOpenError(outcome) ==
    IF outcome = "password" THEN Error("invalid password")
    ELSE Error("unable to find trailer dictionary")

ContainsPassword(msg) == msg = "invalid password"   \* "password" in str(e).lower()

\* Faulty variant: the password check is missing.
encrypt_pdf_unchecked(content, options) ==
    LET o == PdfOpen(content, "") IN
    IF o # "ok" THEN Raise(PdfOpenError(o))
    ELSE Ok([content EXCEPT !.pw = options.password])

encrypt_pdf(content, options) ==
    IF options.password = "" THEN Raise(ValueError("encrypt needs a password"))
    ELSE LET o == PdfOpen(content, "") IN
         IF o # "ok" THEN Raise(PdfOpenError(o))
         ELSE Ok([content EXCEPT !.pw = options.password])

decrypt_pdf(content, options) ==
    IF options.password = "" THEN Raise(ValueError("decrypt needs a password"))
    ELSE LET o == PdfOpen(content, options.password) IN
         IF o = "ok" THEN Ok([content EXCEPT !.pw = ""])
         ELSE IF ContainsPassword(Str(PdfOpenError(o)))
              THEN Raise(ValueError("wrong password"))
              ELSE Raise(PdfOpenError(o))

\* PyPDF2.PdfReader(stream).pages raises on a document that is not a PDF or
\* that is encrypted.
security_add_watermark(content, options) ==
    IF options.text = 0 THEN Raise(ValueError("watermark needs a text"))
    ELSE IF options.text > MAX_WATERMARK_TEXT_LENGTH
         THEN Raise(ValueError("watermark text too long"))
    ELSE IF content.mime # "application/pdf" THEN Raise(Error("EOF marker not found"))
    ELSE IF content.pw # "" THEN Raise(Error("File has not been decrypted"))
    ELSE Ok([content EXCEPT !.marks = @ + 1])

set_permissions(content, options) ==
    IF options.password = "" THEN Raise(ValueError("permissions need a password"))
    ELSE LET o == PdfOpen(content, "") IN
         IF o # "ok" THEN Raise(PdfOpenError(o))
         ELSE Ok([content EXCEPT !.pw = options.password])

sanitize_pdf(content, options) ==
    LET o == PdfOpen(content, "") IN
    IF o # "ok" THEN Raise(PdfOpenError(o))
    ELSE Ok([content EXCEPT !.meta = FALSE])

\* page.get_text does not exist on a pikepdf page: the first page raises.
redact_text(content, options) ==
    IF options.text = 0 THEN Raise(ValueError("redact needs a text"))
    ELSE LET o == PdfOpen(content, "") IN
         IF o # "ok" THEN Raise(PdfOpenError(o))
         ELSE Raise(Error("'Page' object has no attribute 'get_text'"))

\* The if / elif chain of secure_pdf.
Dispatch(operation, content, options) ==
    CASE operation = "encrypt" -> encrypt_pdf(content, options)
      [] operation = "decrypt" -> decrypt_pdf(content, options)
      [] operation = "watermark" -> security_add_watermark(content, options)
      [] operation = "permissions" -> set_permissions(content, options)
      [] operation = "sanitize" -> sanitize_pdf(content, options)
      [] operation = "redact" -> redact_text(content, options)
      [] OTHER -> Raise(ValueError("unsupported operation"))

\* Operation kinds a client may name, and the options sent with each.
RegisteredKinds == {"encrypt", "decrypt", "watermark", "permissions", "sanitize", "redact"}
OperationInputs == RegisteredKinds \cup {"rotate"}
Options(password, text) == [password |-> password, text |-> text]
NoOptions == Options("", 0)
OptionInputs(operation) ==
    CASE operation = "decrypt" -> { Options(p, 0) : p \in Passwords }
      [] operation \in {"encrypt", "permissions"} -> { Options(p, 0) : p \in {"", "pw1"} }
      [] operation = "watermark" -> { Options("", t) : t \in TextLengths }
      [] operation = "redact" -> { Options("", t) : t \in {0, 1} }
      [] OTHER -> { NoOptions }

(***************************************************************************)
(* Records of the catalog and the local state of a request.                *)
(***************************************************************************)
FileRecord(file_id, original, operation_id, bucket, object_name, content_type, size) ==
    [file_id |-> file_id, original_file_id |-> original, original_file_ids |-> None,
     operation_id |-> operation_id, bucket |-> bucket, object_name |-> object_name,
     content_type |-> content_type, size |-> size]
NoFile == FileRecord(UnknownId, None, None, "", << >>, "", 0)

\* Faulty variant: the record is inserted as pending.
OperationRecord_pending(operation_id, file_id, operation, options) ==
    [operation_id |-> operation_id, file_id |-> file_id, operation |-> operation,
     options |-> options, status |-> "pending",
     result_file_id |-> None, error |-> None]

\* The document secure_pdf inserts into security_operations.
OperationRecord(operation_id, file_id, operation, options) ==
    [operation_id |-> operation_id, file_id |-> file_id, operation |-> operation,
     options |-> options, status |-> "processing",
     result_file_id |-> None, error |-> None]

DbError == Error("catalog unavailable")
S3Error == Error("storage unavailable")
AmqpError == Error("broker unavailable")

Idle ==
    [ep |-> "", pc |-> "idle", upload |-> NoDoc, file_id |-> UnknownId,
     operation |-> "", options |-> NoOptions, operation_id |-> UnknownId,
     file_info |-> NoFile, content |-> NoDoc, processed |-> NoDoc,
     result_file_id |-> None, exc |-> NoExc, calls |-> 0, failed |-> "",
     body |-> None, resp |-> NoResp,
     pages |-> << >>, parameters |-> None, file_ids |-> << >>, fetched |-> 0,
     connection |-> None, uploads |-> << >>, responses |-> << >>]

\* The handler of request r ends with response code / detail.
Finish(r, code, detail) ==
    [req[r] EXCEPT !.pc = "done", !.resp = Response(code, detail)]
\* The handler of request r ends in its catch-all: HTTPException(500, str(e)).
Fail500(r, call, e) ==
    [req[r] EXCEPT !.pc = "done", !.exc = e, !.failed = call,
                   !.resp = Response(500, Str(e))]

\* One call of publish_message(routing_key, {... id ...}).
Event(routing_key, id, delivered) ==
    [routing_key |-> routing_key, id |-> id, delivered |-> delivered]

\* Faulty variant: the object name leaves the operation_id out.
ProcessedObjectName_shared(operation_id) == <<UnknownId, "processed.pdf">>

\* save_processed_file: object_name = f"{operation_id}/processed.pdf"
ProcessedObjectName(operation_id) == <<operation_id, "processed.pdf">>

\* Faulty variant: the filter of the query is dropped: any record matches.
FindFile_unfiltered(file_id) == files

\* Motor find_one({"file_id": id}) on the files collection.
FindFile(file_id) == { f \in files : f.file_id = file_id }

\* rabbitmq_connection = None, rabbitmq_channel = None: the module state of a
\* service before its first get_rabbitmq_channel.
NoBroker == [connection |-> None, channel |-> None, open |-> {}, closed |-> {}]

\* Request r is the r-th request to arrive at the services.
Arrives(r) ==
    /\ req[r].pc = "idle"
    /\ \A q \in Requests : q < r => req[q].pc # "idle"

Init ==
    /\ files = {}
    /\ ops = << >>
    /\ store = << >>
    /\ events = {}
    /\ req = [r \in Requests |-> Idle]
    /\ mq = NoBroker

(***************************************************************************)
(* upload-service: POST /upload                                            *)
(***************************************************************************)
\* Faulty variant: only the size is checked, the type is not.
validate_file_size_only(file) ==
    IF file.size > MAX_FILE_SIZE THEN Some(HTTPException(413, "file too large"))
    ELSE None

\* validate_file: the size against MAX_FILE_SIZE, then the detected type
\* against ALLOWED_MIME_TYPES.
validate_file(file) ==
    IF file.size > MAX_FILE_SIZE THEN Some(HTTPException(413, "file too large"))
    ELSE IF file.mime \notin ALLOWED_MIME_TYPES
         THEN Some(HTTPException(415, "unsupported file type"))
    ELSE None

\* The request arrives: validate_file, file_id = uuid4(), then save_to_minio
\* puts the object into bucket "pdf-uploads".  The HTTPException of
\* validate_file is re-raised as it is.
UploadPut(r) ==
    /\ Arrives(r)
    /\ \E file \in UploadInputs :
         LET v == validate_file(file)
             q == [req[r] EXCEPT !.ep = "upload", !.upload = file]
             file_id == uuid4(r, 1) IN
         \/ /\ v # None
            /\ req' = [req EXCEPT ![r] =
                  [q EXCEPT !.pc = "done", !.exc = Val(v),
                            !.resp = Response(Val(v).status, Val(v).detail)]]
            /\ UNCHANGED store
         \/ /\ v = None
            /\ store' = (<<"pdf-uploads", <<file_id, "a.pdf">>>> :> file) @@ store
            /\ req' = [req EXCEPT ![r] = [q EXCEPT !.file_id = file_id, !.pc = "insert"]]
         \/ /\ v = None
            /\ req' = [req EXCEPT ![r] =
                  [q EXCEPT !.file_id = file_id, !.pc = "done", !.exc = S3Error,
                            !.failed = "put", !.resp = Response(500, Str(S3Error))]]
            /\ UNCHANGED store
    /\ UNCHANGED <<files, ops, events, mq>>

\* files_collection.insert_one(metadata.dict())
UploadInsert(r) ==
    /\ req[r].ep = "upload" /\ req[r].pc = "insert"
    /\ \/ /\ files' = files \cup
                { FileRecord(req[r].file_id, None, None, "pdf-uploads",
                             <<req[r].file_id, "a.pdf">>, req[r].upload.mime,
                             req[r].upload.size) }
          /\ req' = [req EXCEPT ![r].pc = "publish"]
       \/ /\ req' = [req EXCEPT ![r] = Fail500(r, "insert", DbError)]
          /\ UNCHANGED files
    /\ UNCHANGED <<ops, store, events, mq>>

\* publish_message("file.uploaded", ...), then the response.  An exception of
\* the publisher reaches the handler's "except Exception".
UploadPublish(r) ==
    /\ req[r].ep = "upload" /\ req[r].pc = "publish"
    /\ \/ /\ events' = events \cup { Event("file.uploaded", req[r].file_id, TRUE) }
          /\ req' = [req EXCEPT ![r] = Finish(r, 200, "uploaded")]
       \/ /\ events' = events \cup { Event("file.uploaded", req[r].file_id, FALSE) }
          /\ req' = [req EXCEPT ![r] = Fail500(r, "publish", AmqpError)]
    /\ UNCHANGED <<files, ops, store, mq>>

(***************************************************************************)
(* security-service: POST /secure                                          *)
(***************************************************************************)
\* Faulty variant: the update is applied to every record of the collection.
update_operation_status_all(operation_id, status, result_file_id, error) ==
    [id \in DOMAIN ops |->
        [ops[id] EXCEPT !.status = status,
                        !.result_file_id = IF result_file_id # None THEN result_file_id ELSE @,
                        !.error = IF error # None THEN error ELSE @]]

\* Faulty variant: result_file_id is left out of the $set.
update_operation_status_no_result(operation_id, status, result_file_id, error) ==
    IF operation_id \in DOMAIN ops
    THEN [ops EXCEPT ![operation_id] =
            [@ EXCEPT !.status = status, !.error = IF error # None THEN error ELSE @]]
    ELSE ops

\* update_operation_status: one $set of status and of the fields given.
update_operation_status(operation_id, status, result_file_id, error) ==
    IF operation_id \in DOMAIN ops
    THEN [ops EXCEPT ![operation_id] =
            [@ EXCEPT !.status = status,
                      !.result_file_id = IF result_file_id # None THEN result_file_id ELSE @,
                      !.error = IF error # None THEN error ELSE @]]
    ELSE ops

\* The request arrives; operation_id = uuid4(); get_file_content awaits
\* files_collection.find_one.  A missing record raises HTTPException(404)
\* inside the try, which "except Exception" turns into
\* HTTPException(500, str(e)); secure_pdf's catch-all wraps it once more.
SecureFind(r) ==
    /\ Arrives(r)
    /\ \E file_id \in { f.file_id : f \in files } \cup { UnknownId },
          operation \in OperationInputs :
         \E options \in OptionInputs(operation) :
            LET q == [req[r] EXCEPT !.ep = "secure", !.file_id = file_id,
                                    !.operation = operation, !.options = options,
                                    !.operation_id = uuid4(r, 1)]
                notfound == HTTPException(500, Str(HTTPException(404, "file not found")))
                dberror == HTTPException(500, Str(DbError)) IN
            \/ \E f \in FindFile(file_id) :
                  req' = [req EXCEPT ![r] = [q EXCEPT !.file_info = f, !.pc = "get"]]
            \/ /\ FindFile(file_id) = {}
               /\ req' = [req EXCEPT ![r] =
                     [q EXCEPT !.pc = "done", !.exc = notfound,
                               !.resp = Response(500, Str(notfound))]]
            \/ req' = [req EXCEPT ![r] =
                     [q EXCEPT !.pc = "done", !.exc = dberror, !.failed = "find",
                               !.resp = Response(500, Str(dberror))]]
    /\ UNCHANGED <<files, ops, store, events, mq>>

\* get_file_content: minio_client.get_object(bucket, object_name).read()
SecureGet(r) ==
    /\ req[r].ep = "secure" /\ req[r].pc = "get"
    /\ LET loc == <<req[r].file_info.bucket, req[r].file_info.object_name>> IN
       \/ /\ loc \in DOMAIN store
          /\ req' = [req EXCEPT ![r].content = store[loc], ![r].pc = "insert"]
       \/ req' = [req EXCEPT ![r] = Fail500(r, "get", HTTPException(500, Str(S3Error)))]
    /\ UNCHANGED <<files, ops, store, events, mq>>

\* security_collection.insert_one({... "status": "processing" ...})
SecureInsert(r) ==
    /\ req[r].ep = "secure" /\ req[r].pc = "insert"
    /\ \/ /\ ops' = (req[r].operation_id :>
                       OperationRecord(req[r].operation_id, req[r].file_id,
                                       req[r].operation, req[r].options)) @@ ops
          /\ req' = [req EXCEPT ![r].pc = "transform"]
       \/ /\ req' = [req EXCEPT ![r] = Fail500(r, "insert", DbError)]
          /\ UNCHANGED ops
    /\ UNCHANGED <<files, store, events, mq>>

\* The dispatch on request.operation and the call of the transformation;
\* when it returns, save_processed_file puts the object
\* "<operation_id>/processed.pdf" into bucket "pdf-security" (no await lies
\* between the two).
SecureTransform(r) ==
    /\ req[r].ep = "secure" /\ req[r].pc = "transform"
    /\ LET res == Dispatch(req[r].operation, req[r].content, req[r].options)
           calls == IF req[r].operation \in RegisteredKinds
                    THEN req[r].calls + 1 ELSE req[r].calls IN
       \/ /\ ~res.ok
          /\ req' = [req EXCEPT ![r].exc = res.exc, ![r].calls = calls,
                                ![r].pc = "update_error"]
          /\ UNCHANGED store
       \/ /\ res.ok
          /\ store' = (<<"pdf-security", ProcessedObjectName(req[r].operation_id)>>
                          :> res.doc) @@ store
          /\ req' = [req EXCEPT ![r].processed = res.doc, ![r].calls = calls,
                                ![r].pc = "save_insert"]
       \/ /\ res.ok
          /\ req' = [req EXCEPT ![r].processed = res.doc, ![r].calls = calls,
                                ![r].exc = HTTPException(500, Str(S3Error)),
                                ![r].failed = "put", ![r].pc = "update_error"]
          /\ UNCHANGED store
    /\ UNCHANGED <<files, ops, events, mq>>

\* Faulty variant: the record names the operation, not the source, as its parent.
save_processed_file_wrong_parent(r) ==
    FileRecord(uuid4(r, 2), Some(req[r].operation_id), Some(req[r].operation_id),
               "pdf-security", ProcessedObjectName(req[r].operation_id),
               "application/pdf", req[r].processed.size)

\* save_processed_file: file_id = uuid4(); files_collection.insert_one(...)
save_processed_file(r) ==
    FileRecord(uuid4(r, 2), Some(req[r].file_id), Some(req[r].operation_id),
               "pdf-security", ProcessedObjectName(req[r].operation_id),
               "application/pdf", req[r].processed.size)

SecureSaveInsert(r) ==
    /\ req[r].ep = "secure" /\ req[r].pc = "save_insert"
    /\ \/ /\ files' = files \cup { save_processed_file(r) }
          /\ req' = [req EXCEPT ![r].result_file_id = Some(save_processed_file(r).file_id),
                                ![r].pc = "update_completed"]
       \/ /\ req' = [req EXCEPT ![r].exc = HTTPException(500, Str(DbError)),
                                ![r].failed = "save_insert", ![r].pc = "update_error"]
          /\ UNCHANGED files
    /\ UNCHANGED <<ops, store, events, mq>>

\* Faulty variant: the completed update sits outside the inner try: its failure
\* goes straight to the catch-all.
SecureCompleted_unhandled(r) ==
    /\ req[r].ep = "secure" /\ req[r].pc = "update_completed"
    /\ \/ /\ ops' = update_operation_status(req[r].operation_id, "completed",
                                            req[r].result_file_id, None)
          /\ req' = [req EXCEPT ![r] = Finish(r, 200, "completed")]
       \/ /\ req' = [req EXCEPT ![r] = Fail500(r, "update_completed", DbError)]
          /\ UNCHANGED ops
    /\ UNCHANGED <<files, store, events, mq>>

\* update_operation_status(operation_id, "completed", result_file_id) and the
\* SecurityResponse.
SecureCompleted(r) ==
    /\ req[r].ep = "secure" /\ req[r].pc = "update_completed"
    /\ \/ /\ ops' = update_operation_status(req[r].operation_id, "completed",
                                            req[r].result_file_id, None)
          /\ req' = [req EXCEPT ![r] = Finish(r, 200, "completed")]
       \/ /\ req' = [req EXCEPT ![r].exc = DbError, ![r].failed = "update_completed",
                                ![r].pc = "update_error"]
          /\ UNCHANGED ops
    /\ UNCHANGED <<files, store, events, mq>>

\* The except branch: update_operation_status(operation_id, "error",
\* error=<error>), then HTTPException(400) for a wrong password and
\* HTTPException(500) otherwise; both are raised inside the outer try, whose
\* catch-all answers HTTPException(500, str(e)).
SecureErrorWith(r, error) ==
    /\ req[r].ep = "secure" /\ req[r].pc = "update_error"
    /\ \/ /\ ops' = update_operation_status(req[r].operation_id, "error", None, error)
          /\ LET inner == IF Str(req[r].exc) = "wrong password"
                          THEN HTTPException(400, "wrong password")
                          ELSE HTTPException(500, Str(req[r].exc)) IN
             req' = [req EXCEPT ![r] = Finish(r, 500, Str(inner))]
       \/ /\ req' = [req EXCEPT ![r] =
                       [Finish(r, 500, Str(DbError)) EXCEPT !.failed = "update_error"]]
          /\ UNCHANGED ops
    /\ UNCHANGED <<files, store, events, mq>>

\* Faulty variant: the message of the exception is not passed on.
SecureError_no_message(r) == SecureErrorWith(r, None)

\* except Exception as e: ... error=str(e)
SecureError(r) == SecureErrorWith(r, Some(Str(req[r].exc)))

(***************************************************************************)
(* security-service: GET /operations/{operation_id}                        *)
(***************************************************************************)
\* find_one on security_operations; the HTTPException(404) of a missing
\* record is raised inside the try and caught by "except Exception".
get_operation_status(r) ==
    /\ Arrives(r)
    /\ \E operation_id \in DOMAIN ops \cup { UnknownId } :
         LET q == [req[r] EXCEPT !.ep = "status", !.operation_id = operation_id] IN
         \/ /\ operation_id \in DOMAIN ops
            /\ req' = [req EXCEPT ![r] =
                  [q EXCEPT !.pc = "done", !.body = Some(ops[operation_id]),
                            !.resp = Response(200, "")]]
         \/ /\ operation_id \notin DOMAIN ops
            /\ req' = [req EXCEPT ![r] =
                  [q EXCEPT !.pc = "done", !.exc = HTTPException(404, "operation not found"),
                            !.resp = Response(500, Str(HTTPException(404, "operation not found")))]]
         \/ req' = [req EXCEPT ![r] =
                  [q EXCEPT !.pc = "done", !.exc = DbError, !.failed = "find",
                            !.resp = Response(500, Str(DbError))]]
    /\ UNCHANGED <<files, ops, store, events, mq>>

(***************************************************************************)
(* security-service: GET /operations/{operation_id}/download               *)
(***************************************************************************)
\* detail of the HTTPException(400) raised for a record that is not completed.
NotReady(status) == "operation not completed, current status: " \o status

\* The request arrives; find_one on security_operations, then the checks on
\* the record.  Every HTTPException raised here is raised inside the try and
\* caught by "except Exception", which answers HTTPException(500, str(e)).
DownloadFind(r) ==
    /\ Arrives(r)
    /\ \E operation_id \in DOMAIN ops \cup { UnknownId } :
         LET q == [req[r] EXCEPT !.ep = "download", !.operation_id = operation_id]
             raised(e) == [q EXCEPT !.pc = "done", !.exc = e,
                                    !.resp = Response(500, Str(e))] IN
         \/ /\ operation_id \notin DOMAIN ops
            /\ req' = [req EXCEPT ![r] = raised(HTTPException(404, "operation not found"))]
         \/ /\ operation_id \in DOMAIN ops
            /\ LET operation == ops[operation_id] IN
               req' = [req EXCEPT ![r] =
                  IF operation.status # "completed"
                  THEN raised(HTTPException(400, NotReady(operation.status)))
                  ELSE IF operation.result_file_id = None
                  THEN raised(HTTPException(404, "no result"))
                  ELSE [q EXCEPT !.result_file_id = operation.result_file_id,
                                 !.pc = "find_file"]]
         \/ req' = [req EXCEPT ![r] = [raised(DbError) EXCEPT !.failed = "find"]]
    /\ UNCHANGED <<files, ops, store, events, mq>>

\* files_collection.find_one({"file_id": operation["result_file_id"]})
DownloadFile(r) ==
    /\ req[r].ep = "download" /\ req[r].pc = "find_file"
    /\ LET found == FindFile(Val(req[r].result_file_id)) IN
       \/ \E f \in found :
             req' = [req EXCEPT ![r].file_info = f, ![r].pc = "get"]
       \/ /\ found = {}
          /\ req' = [req EXCEPT ![r] = Fail500(r, "", HTTPException(404, "file not found"))]
       \/ req' = [req EXCEPT ![r] = Fail500(r, "find_file", DbError)]
    /\ UNCHANGED <<files, ops, store, events, mq>>

\* Faulty variant: the bytes read are also written back under the operation's
\* name.
DownloadGet_writes_back(r) ==
    /\ req[r].ep = "download" /\ req[r].pc = "get"
    /\ LET loc == <<req[r].file_info.bucket, req[r].file_info.object_name>> IN
       /\ loc \in DOMAIN store
       /\ store' = (<<"pdf-security", <<req[r].operation_id, "download.pdf">>>>
                       :> store[loc]) @@ store
       /\ req' = [req EXCEPT ![r] =
                    [Finish(r, 200, "") EXCEPT !.body = Some(store[loc])]]
    /\ UNCHANGED <<files, ops, events, mq>>

\* minio_client.get_object(bucket, object_name).read(), then the
\* StreamingResponse over the bytes read.
DownloadGet(r) ==
    /\ req[r].ep = "download" /\ req[r].pc = "get"
    /\ LET loc == <<req[r].file_info.bucket, req[r].file_info.object_name>> IN
       \/ /\ loc \in DOMAIN store
          /\ req' = [req EXCEPT ![r] =
                       [Finish(r, 200, "") EXCEPT !.body = Some(store[loc])]]
       \/ req' = [req EXCEPT ![r] = Fail500(r, "get", S3Error)]
    /\ UNCHANGED <<files, ops, store, events, mq>>

Next ==
    \E r \in Requests :
       \/ UploadPut(r) \/ UploadInsert(r) \/ UploadPublish(r)
       \/ SecureFind(r) \/ SecureGet(r) \/ SecureInsert(r)
       \/ SecureTransform(r) \/ SecureSaveInsert(r)
       \/ SecureCompleted(r) \/ SecureError(r)
       \/ get_operation_status(r)

Spec == Init /\ [][Next]_vars

(***************************************************************************)
(* Queries over a catalog that earlier requests left behind: one uploaded  *)
(* document, an encrypt operation that completed, one that failed its      *)
(* validation, and one still in flight in another worker.                  *)
(***************************************************************************)
Earlier(k) == uuid4(0, k)            \* identifiers drawn by those requests

InitQuery ==
    LET source == Doc("application/pdf", 1024, "")
        good == Options("pw1", 0)
        bad == Options("", 0)
        result == encrypt_pdf(source, good).doc
        upload == FileRecord(Earlier(1), None, None, "pdf-uploads",
                             <<Earlier(1), "a.pdf">>, source.mime, source.size)
        derived == FileRecord(Earlier(3), Some(Earlier(1)), Some(Earlier(2)),
                              "pdf-security", ProcessedObjectName(Earlier(2)),
                              "application/pdf", result.size) IN
    /\ files = { upload, derived }
    /\ store = (<<upload.bucket, upload.object_name>> :> source)
               @@ (<<derived.bucket, derived.object_name>> :> result)
    /\ ops = (Earlier(2) :>
                [OperationRecord(Earlier(2), Earlier(1), "encrypt", good)
                    EXCEPT !.status = "completed",
                           !.result_file_id = Some(Earlier(3))])
             @@ (Earlier(4) :>
                [OperationRecord(Earlier(4), Earlier(1), "encrypt", bad)
                    EXCEPT !.status = "error",
                           !.error = Some(Str(encrypt_pdf(source, bad).exc))])
             @@ (Earlier(5) :>
                OperationRecord(Earlier(5), Earlier(1), "sanitize", NoOptions))
    /\ events = { Event("file.uploaded", Earlier(1), TRUE) }
    /\ req = [r \in Requests |-> Idle]
    /\ mq = NoBroker

NextQuery ==
    \E r \in Requests :
       \/ get_operation_status(r)
       \/ DownloadFind(r) \/ DownloadFile(r) \/ DownloadGet(r)

SpecQuery == InitQuery /\ [][NextQuery]_vars

(***************************************************************************)
(* viewer-page-service: page operations and merge.  PyPDF2's PdfWriter and *)
(* PdfMerger write an unencrypted document that holds the pages added to   *)
(* it and none of the source's document-level metadata.                    *)
(***************************************************************************)
Range(s) == { s[i] : i \in DOMAIN s }
Lists(S, n) == UNION { [1 .. k -> S] : k \in 0 .. n }

NotPdf == Error("EOF marker not found")
NotDecrypted == Error("File has not been decrypted")

\* pdf_writer.write(output) over the pages added.
PdfWriter(content, pages) ==
    [content EXCEPT !.pages = pages, !.pw = "", !.meta = FALSE]

\* The "rotate" branch: operation.parameters.get("angle", 90), then every
\* page is added, the listed ones rotated.
rotate_pages(content, pages, parameters) ==
    IF parameters = None
    THEN Raise(Error("'NoneType' object has no attribute 'get'"))
    ELSE IF content.pw # "" THEN Raise(NotDecrypted)
    ELSE Ok(PdfWriter(content,
               [i \in 1 .. Len(content.pages) |->
                  IF i \in Range(pages)
                  THEN [content.pages[i] EXCEPT !.rot = (@ + Val(parameters)) % 360]
                  ELSE content.pages[i]]))

\* The "delete" branch: every page whose number is not listed is added.
delete_pages(content, pages) ==
    IF content.pw # "" THEN Raise(NotDecrypted)
    ELSE LET kept(i) == i \notin Range(pages)
             keep == SelectSeq([i \in 1 .. Len(content.pages) |-> i], kept) IN
         Ok(PdfWriter(content, [k \in 1 .. Len(keep) |-> content.pages[keep[k]]]))

\* Faulty variant: the pages are taken in the order of the document.
extract_pages_document_order(content, pages) ==
    IF content.pw # "" /\ \E k \in DOMAIN pages : 0 < pages[k]
    THEN Raise(NotDecrypted)
    ELSE LET listed(i) == i \in Range(pages)
             keep == SelectSeq([i \in 1 .. Len(content.pages) |-> i], listed) IN
         Ok(PdfWriter(content, [k \in 1 .. Len(keep) |-> content.pages[keep[k]]]))

\* The "extract" branch: for each listed number in turn, the page is added
\* if 0 < page_num <= len(pdf_reader.pages); len(...) is what raises on an
\* encrypted document, and it is not evaluated when 0 < page_num fails.
extract_pages(content, pages) ==
    IF content.pw # "" /\ \E k \in DOMAIN pages : 0 < pages[k]
    THEN Raise(NotDecrypted)
    ELSE LET inrange(p) == 0 < p /\ p <= Len(content.pages)
             take == SelectSeq(pages, inrange) IN
         Ok(PdfWriter(content, [k \in 1 .. Len(take) |-> content.pages[take[k]]]))

\* PyPDF2.PdfReader(pdf_file), then the if / elif chain of
\* perform_page_operation.
PageDispatch(operation, content, pages, parameters) ==
    IF content.mime # "application/pdf" THEN Raise(NotPdf)
    ELSE CASE operation = "rotate" -> rotate_pages(content, pages, parameters)
           [] operation = "delete" -> delete_pages(content, pages)
           [] operation = "extract" -> extract_pages(content, pages)
           [] OTHER -> Raise(HTTPException(400, "unsupported operation"))

\* Bodies a client may send to /files/{file_id}/operations.
PageOperation(operation, pages, parameters) ==
    [operation |-> operation, pages |-> pages, parameters |-> parameters]
AllPageOperations ==
    { PageOperation(operation, pages, None) :
         operation \in {"rotate", "delete", "extract", "crop"},
         pages \in Lists(0 .. NumPages + 1, MaxList) }
    \cup { PageOperation("rotate", pages, Some(90)) :
              pages \in Lists(0 .. NumPages + 1, MaxList) }
SomePageOperations ==
    { PageOperation("rotate", <<1>>, Some(90)),
      PageOperation("delete", <<1>>, None),
      PageOperation("delete", [i \in 1 .. NumPages |-> i], None),
      PageOperation("extract", <<NumPages, 1>>, None),
      PageOperation("extract", <<NumPages + 1>>, None),
      PageOperation("crop", <<1>>, None) }

\* Faulty variant: the object name leaves the identifier out.
SavedObjectName_shared(file_id) == <<UnknownId, "processed.pdf">>

\* save_pdf_content: object_name = f"{file_id}/processed.pdf"
SavedObjectName(file_id) == <<file_id, "processed.pdf">>

\* The request arrives; get_pdf_content awaits files_collection.find_one.  A
\* missing record raises HTTPException(404) inside the try of
\* get_pdf_content; its catch-all and the handler's wrap it twice.
PageFind(r, inputs) ==
    /\ Arrives(r)
    /\ \E file_id \in { f.file_id : f \in files } \cup { UnknownId },
          operation \in inputs :
            LET q == [req[r] EXCEPT !.ep = "page", !.file_id = file_id,
                                    !.operation = operation.operation,
                                    !.pages = operation.pages,
                                    !.parameters = operation.parameters]
                notfound == HTTPException(500, Str(HTTPException(404, "file not found")))
                dberror == HTTPException(500, Str(DbError)) IN
            \/ \E f \in FindFile(file_id) :
                  req' = [req EXCEPT ![r] = [q EXCEPT !.file_info = f, !.pc = "get"]]
            \/ /\ FindFile(file_id) = {}
               /\ req' = [req EXCEPT ![r] =
                     [q EXCEPT !.pc = "done", !.exc = notfound,
                               !.resp = Response(500, Str(notfound))]]
            \/ req' = [req EXCEPT ![r] =
                     [q EXCEPT !.pc = "done", !.exc = dberror, !.failed = "find",
                               !.resp = Response(500, Str(dberror))]]
    /\ UNCHANGED <<files, ops, store, events, mq>>

\* get_pdf_content: minio_client.get_object(...).read(); then
\* operation_id = uuid4().
PageGet(r) ==
    /\ req[r].ep = "page" /\ req[r].pc = "get"
    /\ LET loc == <<req[r].file_info.bucket, req[r].file_info.object_name>> IN
       \/ /\ loc \in DOMAIN store
          /\ req' = [req EXCEPT ![r].content = store[loc],
                                ![r].operation_id = uuid4(r, 1), ![r].pc = "put"]
       \/ req' = [req EXCEPT ![r] = Fail500(r, "get", HTTPException(500, Str(S3Error)))]
    /\ UNCHANGED <<files, ops, store, events, mq>>

\* Faulty variant: a failed put is not raised; the handler goes on to insert
\* the record.
PagePut_failure_ignored(r) ==
    /\ req[r].ep = "page" /\ req[r].pc = "put"
    /\ LET res == PageDispatch(req[r].operation, req[r].content,
                               req[r].pages, req[r].parameters) IN
       \/ /\ ~res.ok
          /\ req' = [req EXCEPT ![r] = Fail500(r, "", res.exc)]
          /\ UNCHANGED store
       \/ /\ res.ok
          /\ store' = (<<"pdf-uploads", SavedObjectName(req[r].operation_id)>>
                          :> res.doc) @@ store
          /\ req' = [req EXCEPT ![r].processed = res.doc, ![r].pc = "insert"]
       \/ /\ res.ok
          /\ req' = [req EXCEPT ![r].processed = res.doc, ![r].pc = "insert"]
          /\ UNCHANGED store
    /\ UNCHANGED <<files, ops, events, mq>>

\* The branch of the operation, pdf_writer.write, then save_pdf_content puts
\* the object into bucket "pdf-uploads".
PagePut(r) ==
    /\ req[r].ep = "page" /\ req[r].pc = "put"
    /\ LET res == PageDispatch(req[r].operation, req[r].content,
                               req[r].pages, req[r].parameters) IN
       \/ /\ ~res.ok
          /\ req' = [req EXCEPT ![r] = Fail500(r, "", res.exc)]
          /\ UNCHANGED store
       \/ /\ res.ok
          /\ store' = (<<"pdf-uploads", SavedObjectName(req[r].operation_id)>>
                          :> res.doc) @@ store
          /\ req' = [req EXCEPT ![r].processed = res.doc, ![r].pc = "insert"]
       \/ /\ res.ok
          /\ req' = [req EXCEPT ![r] =
                [Fail500(r, "put", HTTPException(500, Str(S3Error)))
                    EXCEPT !.processed = res.doc]]
          /\ UNCHANGED store
    /\ UNCHANGED <<files, ops, events, mq>>

\* Faulty variant: the record names itself as its source.
PageRecord_own_parent(r) ==
    FileRecord(req[r].operation_id, Some(req[r].operation_id), None, "pdf-uploads",
               SavedObjectName(req[r].operation_id), "", 0)

\* The record perform_page_operation inserts: file_id is the operation_id,
\* original_file_id the source.
PageRecord(r) ==
    FileRecord(req[r].operation_id, Some(req[r].file_id), None, "pdf-uploads",
               SavedObjectName(req[r].operation_id), "", 0)

\* files_collection.insert_one(...), then the OperationResponse.
PageInsert(r) ==
    /\ req[r].ep = "page" /\ req[r].pc = "insert"
    /\ \/ /\ files' = files \cup { PageRecord(r) }
          /\ req' = [req EXCEPT ![r] = Finish(r, 200, "completed")]
       \/ /\ req' = [req EXCEPT ![r] = Fail500(r, "insert", DbError)]
          /\ UNCHANGED files
    /\ UNCHANGED <<ops, store, events, mq>>

\* merger = PyPDF2.PdfMerger(): nothing appended yet.
EmptyMerger == [NoDoc EXCEPT !.mime = "application/pdf"]

\* Faulty variant: the pages of content are put before those appended before.
MergerAppend_in_front(merger, content) ==
    IF content.mime # "application/pdf" THEN Raise(NotPdf)
    ELSE IF content.pw # "" THEN Raise(NotDecrypted)
    ELSE Ok([merger EXCEPT
               !.pages = [i \in 1 .. Len(content.pages) |->
                            [content.pages[i] EXCEPT !.marks = @ + content.marks]] \o @,
               !.size = @ + content.size])

\* merger.append(io.BytesIO(content)): the pages of content, as they look,
\* follow those appended before.
MergerAppend(merger, content) ==
    IF content.mime # "application/pdf" THEN Raise(NotPdf)
    ELSE IF content.pw # "" THEN Raise(NotDecrypted)
    ELSE Ok([merger EXCEPT
               !.pages = @ \o [i \in 1 .. Len(content.pages) |->
                                 [content.pages[i] EXCEPT !.marks = @ + content.marks]],
               !.size = @ + content.size])

\* POST /merge arrives with its list of file_ids; operation_id = uuid4().
MergeReceive(r, n) ==
    /\ Arrives(r)
    /\ \E file_ids \in Lists({ f.file_id : f \in files } \cup { UnknownId }, n) :
          req' = [req EXCEPT ![r] =
                    [@ EXCEPT !.ep = "merge", !.file_ids = file_ids,
                              !.operation_id = uuid4(r, 1), !.processed = EmptyMerger,
                              !.pc = IF file_ids = << >> THEN "put" ELSE "find"]]
    /\ UNCHANGED <<files, ops, store, events, mq>>

\* get_pdf_content(file_id) for the next file_id of the list: find_one.
MergeFind(r) ==
    /\ req[r].ep = "merge" /\ req[r].pc = "find"
    /\ LET file_id == req[r].file_ids[req[r].fetched + 1]
           notfound == HTTPException(500, Str(HTTPException(404, "file not found"))) IN
       \/ \E f \in FindFile(file_id) :
             req' = [req EXCEPT ![r].file_info = f, ![r].pc = "get"]
       \/ /\ FindFile(file_id) = {}
          /\ req' = [req EXCEPT ![r] = Fail500(r, "", notfound)]
       \/ req' = [req EXCEPT ![r] = Fail500(r, "find", HTTPException(500, Str(DbError)))]
    /\ UNCHANGED <<files, ops, store, events, mq>>

\* get_object(...).read(), then merger.append.
MergeGet(r) ==
    /\ req[r].ep = "merge" /\ req[r].pc = "get"
    /\ LET loc == <<req[r].file_info.bucket, req[r].file_info.object_name>> IN
       \/ /\ loc \in DOMAIN store
          /\ LET res == MergerAppend(req[r].processed, store[loc]) IN
             req' = [req EXCEPT ![r] =
                IF ~res.ok THEN Fail500(r, "", res.exc)
                ELSE [@ EXCEPT !.processed = res.doc, !.fetched = @ + 1,
                               !.pc = IF req[r].fetched + 1 = Len(req[r].file_ids)
                                      THEN "put" ELSE "find"]]
       \/ req' = [req EXCEPT ![r] = Fail500(r, "get", HTTPException(500, Str(S3Error)))]
    /\ UNCHANGED <<files, ops, store, events, mq>>

\* merger.write(output), then save_pdf_content.
MergePut(r) ==
    /\ req[r].ep = "merge" /\ req[r].pc = "put"
    /\ \/ /\ store' = (<<"pdf-uploads", SavedObjectName(req[r].operation_id)>>
                          :> req[r].processed) @@ store
          /\ req' = [req EXCEPT ![r].pc = "insert"]
       \/ /\ req' = [req EXCEPT ![r] = Fail500(r, "put", HTTPException(500, Str(S3Error)))]
          /\ UNCHANGED store
    /\ UNCHANGED <<files, ops, events, mq>>

\* The record merge_pdfs inserts: original_file_ids is the list received.
MergeRecord(r) ==
    [FileRecord(req[r].operation_id, None, None, "pdf-uploads",
                SavedObjectName(req[r].operation_id), "", 0)
        EXCEPT !.original_file_ids = Some(req[r].file_ids)]

MergeInsert(r) ==
    /\ req[r].ep = "merge" /\ req[r].pc = "insert"
    /\ \/ /\ files' = files \cup { MergeRecord(r) }
          /\ req' = [req EXCEPT ![r] = Finish(r, 200, "completed")]
       \/ /\ req' = [req EXCEPT ![r] = Fail500(r, "insert", DbError)]
          /\ UNCHANGED files
    /\ UNCHANGED <<ops, store, events, mq>>

(***************************************************************************)
(* viewer-page-service: POST /files/{file_id}/watermark                    *)
(***************************************************************************)
\* The body of add_watermark: PdfReader, the watermark page drawn with
\* drawString(text), merge_page on every page, pdf_writer.write.  The length
\* of text is not looked at.
viewer_add_watermark(content, text) ==
    IF content.mime # "application/pdf" THEN Raise(NotPdf)
    ELSE IF content.pw # "" THEN Raise(NotDecrypted)
    ELSE Ok([PdfWriter(content, content.pages) EXCEPT !.marks = @ + 1])

\* The request arrives; operation_id = uuid4(); get_pdf_content awaits
\* files_collection.find_one.
WatermarkFind(r) ==
    /\ Arrives(r)
    /\ \E file_id \in { f.file_id : f \in files } \cup { UnknownId },
          text \in TextLengths :
            LET q == [req[r] EXCEPT !.ep = "watermark", !.file_id = file_id,
                                    !.operation = "watermark",
                                    !.options = Options("", text),
                                    !.operation_id = uuid4(r, 1)]
                notfound == HTTPException(500, Str(HTTPException(404, "file not found")))
                dberror == HTTPException(500, Str(DbError)) IN
            \/ \E f \in FindFile(file_id) :
                  req' = [req EXCEPT ![r] = [q EXCEPT !.file_info = f, !.pc = "get"]]
            \/ /\ FindFile(file_id) = {}
               /\ req' = [req EXCEPT ![r] =
                     [q EXCEPT !.pc = "done", !.exc = notfound,
                               !.resp = Response(500, Str(notfound))]]
            \/ req' = [req EXCEPT ![r] =
                     [q EXCEPT !.pc = "done", !.exc = dberror, !.failed = "find",
                               !.resp = Response(500, Str(dberror))]]
    /\ UNCHANGED <<files, ops, store, events, mq>>

\* get_pdf_content: minio_client.get_object(...).read()
WatermarkGet(r) ==
    /\ req[r].ep = "watermark" /\ req[r].pc = "get"
    /\ LET loc == <<req[r].file_info.bucket, req[r].file_info.object_name>> IN
       \/ /\ loc \in DOMAIN store
          /\ req' = [req EXCEPT ![r].content = store[loc], ![r].pc = "put"]
       \/ req' = [req EXCEPT ![r] = Fail500(r, "get", HTTPException(500, Str(S3Error)))]
    /\ UNCHANGED <<files, ops, store, events, mq>>

\* The watermark is merged into the pages, then save_pdf_content puts the
\* object into bucket "pdf-uploads".
WatermarkPut(r) ==
    /\ req[r].ep = "watermark" /\ req[r].pc = "put"
    /\ LET res == viewer_add_watermark(req[r].content, req[r].options.text) IN
       \/ /\ ~res.ok
          /\ req' = [req EXCEPT ![r] = Fail500(r, "", res.exc)]
          /\ UNCHANGED store
       \/ /\ res.ok
          /\ store' = (<<"pdf-uploads", SavedObjectName(req[r].operation_id)>>
                          :> res.doc) @@ store
          /\ req' = [req EXCEPT ![r].processed = res.doc, ![r].pc = "insert"]
       \/ /\ res.ok
          /\ req' = [req EXCEPT ![r] =
                [Fail500(r, "put", HTTPException(500, Str(S3Error)))
                    EXCEPT !.processed = res.doc]]
          /\ UNCHANGED store
    /\ UNCHANGED <<files, ops, events, mq>>

\* files_collection.insert_one(...) of the record of the watermarked file,
\* then the OperationResponse.
WatermarkInsert(r) ==
    /\ req[r].ep = "watermark" /\ req[r].pc = "insert"
    /\ \/ /\ files' = files \cup { PageRecord(r) }
          /\ req' = [req EXCEPT ![r] = Finish(r, 200, "completed")]
       \/ /\ req' = [req EXCEPT ![r] = Fail500(r, "insert", DbError)]
          /\ UNCHANGED files
    /\ UNCHANGED <<ops, store, events, mq>>

(***************************************************************************)
(* All services over one catalog and one store.                            *)
(***************************************************************************)
NextAll ==
    \/ Next
    \/ \E r \in Requests :
          \/ DownloadFind(r) \/ DownloadFile(r) \/ DownloadGet(r)
          \/ PageFind(r, SomePageOperations) \/ PageGet(r) \/ PagePut(r) \/ PageInsert(r)
          \/ MergeReceive(r, MaxList - 1) \/ MergeFind(r) \/ MergeGet(r)
          \/ MergePut(r) \/ MergeInsert(r)
          \/ WatermarkFind(r) \/ WatermarkGet(r) \/ WatermarkPut(r)
          \/ WatermarkInsert(r)

SpecAll == Init /\ [][NextAll]_vars

(***************************************************************************)
(* The page service handling the last request, with every body a client    *)
(* may send, after each earlier request has uploaded one file.             *)
(***************************************************************************)
EarlierUploads ==
    << Doc("application/pdf", 1024, ""),
       Doc("application/pdf", MAX_FILE_SIZE, "pw1"),
       Doc("image/png", 1024, "") >>

InitPages ==
    LET earlier == Requests \ { NumReq }
        file(r) == EarlierUploads[((r - 1) % Len(EarlierUploads)) + 1]
        name(r) == <<uuid4(r, 1), "a.pdf">> IN
    /\ files = { FileRecord(uuid4(r, 1), None, None, "pdf-uploads", name(r),
                            file(r).mime, file(r).size) : r \in earlier }
    /\ store = [loc \in { <<"pdf-uploads", name(r)>> : r \in earlier } |->
                  file(loc[2][1][1])]
    /\ ops = << >>
    /\ events = { Event("file.uploaded", uuid4(r, 1), TRUE) : r \in earlier }
    /\ req = [r \in Requests |->
                IF r \in earlier
                THEN [Idle EXCEPT !.ep = "upload", !.upload = file(r),
                                  !.file_id = uuid4(r, 1), !.pc = "done",
                                  !.resp = Response(200, "uploaded")]
                ELSE Idle]
    /\ mq = NoBroker

NextPages ==
    \E r \in Requests :
       \/ PageFind(r, AllPageOperations) \/ PageGet(r) \/ PagePut(r) \/ PageInsert(r)
       \/ MergeReceive(r, MaxList) \/ MergeFind(r) \/ MergeGet(r)
       \/ MergePut(r) \/ MergeInsert(r)
       \/ WatermarkFind(r) \/ WatermarkGet(r) \/ WatermarkPut(r) \/ WatermarkInsert(r)

SpecPages == InitPages /\ [][NextPages]_vars

(***************************************************************************)
(* Properties.  The terminal statuses of the code are "completed" and      *)
(* "error" (the specification's "failed").                                 *)
(***************************************************************************)
Terminal == {"completed", "error"}
Secure(r) == req[r].ep = "secure"
Accepted(r) == Secure(r) /\ req[r].operation_id \in DOMAIN ops
Op(r) == ops[req[r].operation_id]
ResultLocator(r) == <<"pdf-security", ProcessedObjectName(req[r].operation_id)>>

\* The request names no registered kind, or its options fail the checks the
\* transformation of its kind makes.
InvalidRequest(r) ==
    /\ Secure(r)
    /\ \/ req[r].operation \notin RegisteredKinds
       \/ req[r].operation \in {"encrypt", "decrypt", "permissions"}
            /\ req[r].options.password = ""
       \/ req[r].operation = "watermark"
            /\ (req[r].options.text = 0 \/ req[r].options.text > MAX_WATERMARK_TEXT_LENGTH)
       \/ req[r].operation = "redact" /\ req[r].options.text = 0

\* The catalog holds no file record for the source the request names.
SourceMissing(r) ==
    Secure(r) /\ \A f \in files : f.file_id # req[r].file_id

\* The transformation of an accepted request was dispatched and raised.
TransformFailed(r) ==
    Accepted(r) /\ req[r].pc \in {"update_error", "done"} /\ req[r].processed = NoDoc

C2_ResultIffCompleted ==
    \A id \in DOMAIN ops :
       /\ ops[id].result_file_id # None <=> ops[id].status = "completed"
       /\ ops[id].error # None <=> ops[id].status = "error"

\* C2 witness: a completed record carrying a result_file_id next to a
\* record still in processing that carries neither field.
C2_Witness ==
    \E id1, id2 \in DOMAIN ops :
       /\ ops[id1].status = "completed" /\ ops[id1].result_file_id # None
       /\ ops[id2].status = "processing" /\ ops[id2].result_file_id = None
       /\ ops[id2].error = None

\* C3 (as claimed): when an accepted request has finished, its record is in
\* a terminal state, whatever call failed on the way.
C3_AlwaysTerminalWhenDone ==
    \A r \in Requests :
       Accepted(r) /\ req[r].pc = "done" => Op(r).status \in Terminal

\* The record of an accepted request never carries both a result and an
\* error, and when the request has finished the record is terminal unless
\* the status update of the failure handler itself failed; only then does it
\* stay in processing.
RecordOutcome ==
    \A r \in Requests :
       Accepted(r) =>
          /\ Op(r).status \in {"processing"} \cup Terminal
          /\ ~(Op(r).result_file_id # None /\ Op(r).error # None)
          /\ req[r].pc = "done" =>
                /\ Op(r).status = "processing" <=> req[r].failed = "update_error"
                /\ Op(r).status = "completed" <=> req[r].resp.code = 200

\* C3 (amended): the status of a record changes only from processing into
\* completed or error, so at most once; the record never carries both
\* outcomes; and a finished request leaves it terminal unless the status
\* update of its failure handler failed, when it stays in processing.
C3_TerminalUnlessUpdateFails ==
    /\ []RecordOutcome
    /\ [][\A id \in DOMAIN ops :
            /\ id \in DOMAIN ops'
            /\ ops'[id].status # ops[id].status =>
                  ops[id].status = "processing" /\ ops'[id].status \in Terminal]_vars

\* C3 witness: a storage or catalog call failed part-way and the finished
\* request left its record in error.
C3_Witness ==
    \E r \in Requests :
       /\ Accepted(r) /\ req[r].pc = "done"
       /\ req[r].failed \in {"put", "save_insert", "update_completed"}
       /\ Op(r).status = "error"

C7_CompletedHasDerivedFile ==
    /\ \A id \in DOMAIN ops :
          ops[id].status = "completed" =>
             \E f \in files :
                /\ Some(f.file_id) = ops[id].result_file_id
                /\ f.original_file_id = Some(ops[id].file_id)
                /\ f.operation_id = Some(id)
                /\ <<f.bucket, f.object_name>> \in DOMAIN store
    /\ \A r \in Requests :
          Secure(r) /\ req[r].pc = "done" /\ req[r].resp.code = 200 =>
             /\ Accepted(r) /\ Op(r).status = "completed"
             /\ Op(r).result_file_id = req[r].result_file_id
             /\ store[ResultLocator(r)] = req[r].processed

\* C7 witness: a request has been answered with 200 and its record is
\* completed.
C7_Witness ==
    \E r \in Requests :
       Secure(r) /\ req[r].pc = "done" /\ req[r].resp.code = 200 /\ Accepted(r)

\* C8 (as claimed): a finished request whose record is terminal has made a
\* publish attempt with the matching routing key for its operation.
C8_TerminalPublishes ==
    \A r \in Requests :
       Accepted(r) /\ req[r].pc = "done" /\ Op(r).status \in Terminal =>
          \E e \in events :
             /\ e.id = req[r].operation_id
             /\ e.routing_key = (IF Op(r).status = "completed"
                                 THEN "file.operation.completed"
                                 ELSE "file.operation.failed")

\* C9 (as claimed): an upload whose only failure is the publish is answered
\* with its successful result.
C9_PublishFailureSwallowed ==
    \A r \in Requests :
       req[r].ep = "upload" /\ req[r].pc = "done" /\ req[r].failed = "publish" =>
          req[r].resp.code = 200

\* C10 (as claimed): a status query for an unknown operation_id is answered
\* with not-found (404), unlike a failed catalog lookup (500); a query for a
\* known id returns the record.
C10_UnknownIsNotFound ==
    \A r \in Requests :
       req[r].ep = "status" /\ req[r].pc = "done" =>
          /\ req[r].exc = HTTPException(404, "operation not found") => req[r].resp.code = 404
          /\ req[r].failed = "find" => req[r].resp.code = 500
          /\ req[r].body # None => req[r].resp.code = 200

(***************************************************************************)
(* Properties of the queries (SpecQuery).                                  *)
(***************************************************************************)
Download(r) == req[r].ep = "download"
Query(r) == req[r].ep \in {"status", "download"}
Answered(r) == req[r].pc = "done" /\ req[r].failed = ""

\* C11 (as claimed): a download of a completed operation is answered with the
\* bytes of its result artifact; a download of a record in any other status
\* is answered with the not-ready error (400) naming that status, without bytes.
C11_DownloadAnswers ==
    \A r \in Requests :
       Download(r) /\ Answered(r) /\ req[r].operation_id \in DOMAIN ops =>
          IF Op(r).status = "completed"
          THEN req[r].resp.code = 200 /\ req[r].body = Some(store[ResultLocator(r)])
          ELSE req[r].resp = Response(400, NotReady(Op(r).status)) /\ req[r].body = None

\* C12: a step of a status query or of a download changes no operation
\* record, no file record, no stored object, publishes nothing and calls no
\* transformation; all answered status queries and downloads of a completed
\* operation carry the result_file_id the record holds.
C12_QueriesReadOnly ==
    /\ [](\A r \in Requests :
            Query(r) /\ Answered(r) /\ req[r].operation_id \in DOMAIN ops
               /\ Op(r).status = "completed" =>
                  /\ req[r].resp.code = 200
                  /\ req[r].ep = "status" =>
                        Val(req[r].body).result_file_id = Op(r).result_file_id
                  /\ req[r].ep = "download" =>
                        /\ req[r].result_file_id = Op(r).result_file_id
                        /\ req[r].body = Some(store[ResultLocator(r)]))
    /\ [][\A r \in Requests :
            req'[r] # req[r] /\ req'[r].ep \in {"status", "download"} =>
               /\ UNCHANGED <<files, ops, store, events>>
               /\ req'[r].calls = 0]_vars

\* C12 witness: two status queries and a download of the same completed
\* operation have been answered.
C12_Witness ==
    \E r1, r2, r3 \in Requests :
       /\ r1 # r2
       /\ req[r1].ep = "status" /\ req[r2].ep = "status" /\ req[r3].ep = "download"
       /\ \A r \in {r1, r2, r3} :
             /\ Answered(r) /\ req[r].resp.code = 200
             /\ req[r].operation_id = req[r1].operation_id
       /\ Op(r1).status = "completed"

\* C13: concurrent requests hold different operation_ids and result
\* locators; an object under a request's result locator holds that request's
\* own result; a request whose transformation returned and whose calls to the
\* catalog and the store all returned ends completed with its own derived file
\* record; and an operation record is created and changed only by steps of
\* the request that drew its operation_id.
C13_ParallelOperationsIndependent ==
    /\ [](/\ \A r1, r2 \in Requests :
               Secure(r1) /\ Secure(r2) /\ r1 # r2 =>
                  /\ req[r1].operation_id # req[r2].operation_id
                  /\ ResultLocator(r1) # ResultLocator(r2)
          /\ \A r \in Requests :
               Secure(r) /\ ResultLocator(r) \in DOMAIN store =>
                  store[ResultLocator(r)] = req[r].processed
          /\ \A r \in Requests :
               Accepted(r) /\ req[r].pc = "done" /\ req[r].failed = ""
                  /\ Dispatch(req[r].operation, req[r].content, req[r].options).ok =>
                     /\ req[r].resp.code = 200
                     /\ Op(r).status = "completed"
                     /\ \E f \in files :
                           /\ Some(f.file_id) = Op(r).result_file_id
                           /\ <<f.bucket, f.object_name>> = ResultLocator(r)
                           /\ \A q \in Requests \ {r} :
                                 Accepted(q) => Some(f.file_id) # Op(q).result_file_id)
    /\ [][\A id \in DOMAIN ops' :
            id \notin DOMAIN ops \/ ops'[id] # ops[id] =>
               \E r \in Requests :
                  /\ Secure(r) /\ req[r].operation_id = id
                  /\ req'[r] # req[r]
                  /\ \A q \in Requests \ {r} : req'[q] = req[q]]_vars

\* C13 witness: two requests on the same source file have both been answered
\* with 200 and both records are completed.
C13_Witness ==
    \E r1, r2 \in Requests :
       /\ r1 # r2 /\ Accepted(r1) /\ Accepted(r2)
       /\ req[r1].file_id = req[r2].file_id
       /\ req[r1].resp.code = 200 /\ req[r2].resp.code = 200
       /\ Op(r1).status = "completed" /\ Op(r2).status = "completed"
       /\ req[r1].processed # req[r2].processed

(***************************************************************************)
(* Properties over all services (SpecAll).                                 *)
(***************************************************************************)
\* The request has drawn the identifier its object name is built from.
Named(r) ==
    \/ req[r].ep = "upload" /\ req[r].file_id # UnknownId
    \/ req[r].ep \in {"secure", "page", "merge", "watermark"}
          /\ req[r].operation_id # UnknownId

\* The locator the put_object of request r names.
WriteLocator(r) ==
    CASE req[r].ep = "upload" -> <<"pdf-uploads", <<req[r].file_id, "a.pdf">>>>
      [] req[r].ep = "secure" -> ResultLocator(r)
      [] OTHER -> <<"pdf-uploads", SavedObjectName(req[r].operation_id)>>

\* C14: no two requests of any service name the same locator for their
\* object; a step never changes or removes a stored object, it at most adds
\* one at a locator that held nothing; and a step never changes or removes a
\* file record, it at most adds records under file_ids not yet in the catalog.
C14_ArtifactsImmutable ==
    /\ [](\A r1, r2 \in Requests :
            r1 # r2 /\ Named(r1) /\ Named(r2) => WriteLocator(r1) # WriteLocator(r2))
    /\ [][/\ \A loc \in DOMAIN store :
                loc \in DOMAIN store' /\ store'[loc] = store[loc]
          /\ store' # store =>
                \E r \in Requests :
                   /\ WriteLocator(r)' \notin DOMAIN store
                   /\ DOMAIN store' = DOMAIN store \cup { WriteLocator(r)' }
          /\ \A f \in files : f \in files'
          /\ \A f \in files' \ files :
                \A g \in (files' \cup files) \ {f} : g.file_id # f.file_id]_vars

\* C14 witness: the upload service, the security service and the page
\* service have each stored an object, the latter two derived from the
\* upload, and the uploaded object and its record are still there.
C14_Witness ==
    \E u, s, p \in Requests :
       /\ req[u].ep = "upload" /\ req[s].ep = "secure" /\ req[p].ep = "page"
       /\ req[u].resp.code = 200 /\ req[s].resp.code = 200 /\ req[p].resp.code = 200
       /\ req[s].file_id = req[u].file_id /\ req[p].file_id = req[u].file_id
       /\ store[WriteLocator(u)] = req[u].upload
       /\ store[WriteLocator(s)] = req[s].processed
       /\ store[WriteLocator(p)] = req[p].processed
       /\ \E f \in files : f.file_id = req[u].file_id /\ f.original_file_id = None

\* The file_ids a file record names as its sources.
Parents(f) ==
    (IF f.original_file_id = None THEN {} ELSE { Val(f.original_file_id) })
    \cup (IF f.original_file_ids = None THEN {} ELSE Range(Val(f.original_file_ids)))
Derived(f) == f.original_file_id # None \/ f.original_file_ids # None
FileIds(fs) == { f.file_id : f \in fs }

\* The file_ids reached from the file_ids in ids by following the source
\* references at most n times.
RECURSIVE Ancestors(_, _)
Ancestors(ids, n) ==
    IF n = 0 THEN ids
    ELSE Ancestors(ids \cup UNION { Parents(f) : f \in { g \in files : g.file_id \in ids } },
                   n - 1)

\* C15 (as claimed): every file record created by an operation, a merge
\* included, names exactly one parent, and that parent has a file record.
C15_ExactlyOneParent ==
    \A f \in files :
       Derived(f) => Cardinality(Parents(f)) = 1 /\ Parents(f) \subseteq FileIds(files)

\* C15 (amended): a record inserted by the security service, by a page
\* operation or by the page service's watermark names exactly one parent, the source of its request, in
\* original_file_id; a record inserted by a merge names the list of file_ids
\* of its request in original_file_ids; an upload's record names none.  All
\* the file_ids named have a record before the insert, and no record is
\* among its own ancestors.
C15_SourcesExistWhenCreated ==
    /\ [](\A f \in files :
            f.file_id \notin Ancestors(Parents(f), Cardinality(files)))
    /\ [][\A f \in files' \ files :
            /\ Parents(f) \subseteq FileIds(files)
            /\ \E r \in Requests :
                  /\ req'[r] # req[r]
                  /\ CASE req[r].ep \in {"secure", "page", "watermark"} ->
                            /\ f.original_file_id = Some(req[r].file_id)
                            /\ f.original_file_ids = None
                       [] req[r].ep = "merge" ->
                            /\ f.original_file_id = None
                            /\ f.original_file_ids = Some(req[r].file_ids)
                       [] OTHER -> ~Derived(f)]_vars

\* C15 witness: the catalog holds an upload, a record derived from it by a
\* page operation, and the record of a merge of the two.
C15_Witness ==
    \E u, p, m \in files :
       /\ ~Derived(u)
       /\ p.original_file_id = Some(u.file_id)
       /\ m.original_file_ids = Some(<<u.file_id, p.file_id>>)

(***************************************************************************)
(* Further properties of the security service (Spec).                      *)
(***************************************************************************)
\* The request asks to decrypt an encrypted document with a password that is
\* not the document's.
WrongPassword(r) ==
    /\ Secure(r) /\ req[r].operation = "decrypt"
    /\ req[r].content.pw # ""
    /\ req[r].options.password \notin {"", req[r].content.pw}

\* C16 (as claimed): a decrypt request with the wrong password, once answered
\* with every catalog call having returned, got the wrong-password answer
\* (400), not the answer of a generic processing failure (500).
C16_WrongPasswordAnswer ==
    \A r \in Requests :
       WrongPassword(r) /\ req[r].pc = "done" /\ req[r].failed = "" =>
          req[r].resp = Response(400, "wrong password")

\* C17 (as claimed): an operation record enters the catalog with status
\* pending, before the source bytes of its request have been fetched.
C17_CreatedPendingBeforeFetch ==
    [][\A id \in DOMAIN ops' \ DOMAIN ops :
          /\ ops'[id].status = "pending"
          /\ \A r \in Requests :
                req[r].operation_id = id => req[r].content = NoDoc]_vars

\* C17 (amended): an operation record enters the catalog with status
\* processing, by a step of the request that drew its operation_id and after
\* that request has fetched its source bytes; no record ever has the status
\* pending.
C17_CreatedProcessingAfterFetch ==
    /\ [](\A id \in DOMAIN ops : ops[id].status # "pending")
    /\ [][\A id \in DOMAIN ops' \ DOMAIN ops :
            /\ ops'[id].status = "processing"
            /\ \E r \in Requests :
                  /\ Secure(r) /\ req[r].operation_id = id
                  /\ req'[r] # req[r]
                  /\ req[r].file_info \in files
                  /\ req[r].content = store[<<req[r].file_info.bucket,
                                              req[r].file_info.object_name>>]]_vars

\* C17 witness: a request has fetched its source and its record has just
\* been inserted, the transformation still to come.
C17_Witness ==
    \E r \in Requests :
       Accepted(r) /\ req[r].pc = "transform" /\ Op(r).status = "processing"
          /\ req[r].content # NoDoc

(***************************************************************************)
(* Properties of the page operations (SpecPages).                          *)
(***************************************************************************)
\* Request r is a page operation of the kind given whose source bytes have
\* been fetched and are a PDF the reader can take the pages of.
PageOp(r, kind) ==
    /\ req[r].ep = "page" /\ req[r].operation = kind
    /\ req[r].content.mime = "application/pdf" /\ req[r].content.pw = ""
PageCount(r) == Len(req[r].content.pages)
\* Nothing was stored or recorded for request r, and it was not answered
\* with success.
Rejected(r) ==
    /\ WriteLocator(r) \notin DOMAIN store
    /\ \A f \in files : f.file_id # req[r].operation_id
    /\ req[r].resp.code # 200

\* C18 (as claimed): a delete operation whose list covers every page of the
\* document stores no object and inserts no file record.
C18_DeleteAllRejected ==
    \A r \in Requests :
       PageOp(r, "delete") /\ (1 .. PageCount(r)) \subseteq Range(req[r].pages) =>
          Rejected(r)

\* C19 (as claimed): an extract operation that lists an index outside
\* 1 .. page_count stores no object and inserts no file record.
C19_ExtractOutOfRangeFails ==
    \A r \in Requests :
       PageOp(r, "extract") /\ ~(Range(req[r].pages) \subseteq 1 .. PageCount(r)) =>
          Rejected(r)

\* C20: once an extract operation whose indices p1..pn all lie in
\* 1 .. page_count has run, the document it produced has exactly n pages, the
\* i-th being page p_i of the source as it was; the stored object is that
\* document.
C20_ExtractKeepsOrder ==
    \A r \in Requests :
       PageOp(r, "extract") /\ Range(req[r].pages) \subseteq 1 .. PageCount(r)
          /\ req[r].pc \in {"insert", "done"} =>
             /\ Len(req[r].processed.pages) = Len(req[r].pages)
             /\ \A i \in DOMAIN req[r].pages :
                   req[r].processed.pages[i] = req[r].content.pages[req[r].pages[i]]
             /\ req[r].failed # "put" =>
                   /\ WriteLocator(r) \in DOMAIN store
                   /\ store[WriteLocator(r)] = req[r].processed

\* C20 witness: an extract of the last page followed by the first has been
\* answered with success.
C20_Witness ==
    \E r \in Requests :
       /\ PageOp(r, "extract") /\ req[r].pages = <<NumPages, 1>>
       /\ req[r].pc = "done" /\ req[r].resp.code = 200
       /\ store[WriteLocator(r)].pages = <<Page(req[r].content.size, NumPages),
                                           Page(req[r].content.size, 1)>>

(***************************************************************************)
(* Properties of merge.                                                    *)
(***************************************************************************)
Merge(r) == req[r].ep = "merge"

\* The stored document of the file record with the file_id given.
SourceDoc(file_id) ==
    LET f == CHOOSE g \in files : g.file_id = file_id IN
    store[<<f.bucket, f.object_name>>]

\* The pages of the first k sources of the list, each as it looks in its
\* source, one source after the other.
RECURSIVE SourcePages(_, _)
SourcePages(file_ids, k) ==
    IF k = 0 THEN << >>
    ELSE LET d == SourceDoc(file_ids[k]) IN
         SourcePages(file_ids, k - 1)
            \o [i \in 1 .. Len(d.pages) |-> [d.pages[i] EXCEPT !.marks = @ + d.marks]]

\* C21: while a merge appends its sources, the merger holds the pages of the
\* sources appended so far, concatenated in the order of the list; once all
\* are appended the document written and stored has exactly the pages of all
\* the sources in the listed order, its page count being the sum of theirs.
C21_MergeConcatenates ==
    \A r \in Requests :
       Merge(r) /\ req[r].failed = "" /\ req[r].exc = NoExc =>
          /\ req[r].processed.pages = SourcePages(req[r].file_ids, req[r].fetched)
          /\ req[r].pc \in {"insert", "done"} =>
                /\ req[r].fetched = Len(req[r].file_ids)
                /\ store[WriteLocator(r)].pages
                      = SourcePages(req[r].file_ids, Len(req[r].file_ids))

\* C21 witness: a merge of two different documents, one of them derived from
\* the other by a page operation, has been stored; it has the pages of the
\* first followed by those of the second.
C21_Witness ==
    \E r \in Requests :
       /\ Merge(r) /\ req[r].pc = "done" /\ req[r].resp.code = 200
       /\ Len(req[r].file_ids) = 2
       /\ LET a == SourceDoc(req[r].file_ids[1])
              b == SourceDoc(req[r].file_ids[2]) IN
          /\ a.pages # b.pages /\ a.pages # << >> /\ b.pages # << >>
          /\ store[WriteLocator(r)].pages = a.pages \o b.pages
          /\ Len(store[WriteLocator(r)].pages) = Len(a.pages) + Len(b.pages)

\* C22 (as claimed): a merge request that lists fewer than two file_ids
\* stores no object, inserts no file record and is not answered with success.
C22_MergeFewerThanTwoRejected ==
    \A r \in Requests :
       Merge(r) /\ Len(req[r].file_ids) < 2 => Rejected(r)

(***************************************************************************)
(* Properties of the watermark operations.                                 *)
(***************************************************************************)
\* Request r is a watermark operation of the security service or of the
\* page service.
Watermark(r) ==
    \/ Secure(r) /\ req[r].operation = "watermark"
    \/ req[r].ep = "watermark"

\* C23 (as claimed): a watermark operation of either service whose text is
\* longer than MAX_WATERMARK_TEXT_LENGTH stores nothing, records no file and
\* is not answered with success; one whose text has exactly that length, on
\* a readable PDF and with every call to the catalog and the store returning,
\* is answered with success.
C23_WatermarkLengthChecked ==
    \A r \in Requests :
       Watermark(r) =>
          /\ req[r].options.text > MAX_WATERMARK_TEXT_LENGTH => Rejected(r)
          /\ req[r].options.text = MAX_WATERMARK_TEXT_LENGTH
                /\ req[r].pc = "done" /\ req[r].failed = ""
                /\ req[r].content.mime = "application/pdf" /\ req[r].content.pw = "" =>
                   req[r].resp.code = 200

(***************************************************************************)
(* Records and objects (SpecAll).                                          *)
(***************************************************************************)
\* C24: every file record of the catalog names a locator that holds an
\* object, and for a record inserted by a request still known it is the
\* object that request stored.
C24_RecordHasObject ==
    /\ \A f \in files : <<f.bucket, f.object_name>> \in DOMAIN store
    /\ \A r \in Requests, f \in files :
          Named(r) /\ <<f.bucket, f.object_name>> = WriteLocator(r) =>
             store[WriteLocator(r)]
                = (IF req[r].ep = "upload" THEN req[r].upload ELSE req[r].processed)

\* C24 witness: the insert of a file record failed after the object was
\* stored, leaving an object without a record beside records with objects.
C24_Witness ==
    \E r \in Requests :
       /\ Named(r) /\ req[r].failed \in {"insert", "save_insert"}
       /\ WriteLocator(r) \in DOMAIN store
       /\ \A f \in files : <<f.bucket, f.object_name>> # WriteLocator(r)
       /\ files # {}

\* C25 (as claimed): no file record carries the operation_id of an operation
\* whose record is in error: a derived file record exists only for a
\* completed operation.
C25_NoFileRecordOfFailedOperation ==
    \A id \in DOMAIN ops :
       ops[id].status = "error" =>
          \A f \in files : f.operation_id # Some(id)

(***************************************************************************)
(* The broker channel of one service process: get_rabbitmq_channel,       *)
(* startup_event, shutdown_event (identical in the three services).       *)
(* Request 1 is startup_event's call; the later requests are the calls of *)
(* publish_message made by handlers the event loop interleaves at each    *)
(* await.                                                                 *)
(***************************************************************************)
\* The connection aio_pika.connect_robust returns to caller r.
Connection(r) == [by |-> r]

\* The channel connection.channel() returns to caller r.
Channel(connection, r) == [connection |-> connection, by |-> r]

\* rabbitmq_connection is None or rabbitmq_connection.is_closed
ConnectionMissing(m) ==
    m.connection = None \/ Val(m.connection) \in m.closed

\* rabbitmq_channel is None or rabbitmq_channel.is_closed (a channel is
\* closed with its connection).
ChannelMissing(m) ==
    m.channel = None \/ Val(m.channel).connection \in m.closed

\* The second if of get_rabbitmq_channel, run by caller r on the module
\* state m: it calls channel() on the connection the global names at that
\* moment and awaits it, or returns the channel the global names.
SecondIf(r, m) ==
    IF ChannelMissing(m)
    THEN [req[r] EXCEPT !.ep = "channel", !.pc = "channel",
                        !.connection = m.connection]
    ELSE [req[r] EXCEPT !.ep = "channel", !.pc = "done", !.body = m.channel,
                        !.resp = Response(200, "channel")]

\* get_rabbitmq_channel raises out of the awaited call to its caller r:
\* startup_event logs the exception, publish_message passes it on.
Raised(r, call) ==
    [req[r] EXCEPT !.pc = "done", !.exc = AmqpError, !.failed = call]

\* Caller r enters get_rabbitmq_channel and runs to its first await or to
\* its return.  startup_event awaits its call before the service accepts
\* requests, so the other callers enter after request 1 has ended.
ChannelEnter(r) ==
    /\ Arrives(r)
    /\ r > 1 => req[1].pc = "done"
    /\ req' = [req EXCEPT ![r] =
                 IF ConnectionMissing(mq)
                 THEN [req[r] EXCEPT !.ep = "channel", !.pc = "connect"]
                 ELSE SecondIf(r, mq)]
    /\ UNCHANGED <<files, ops, store, events, mq>>

\* connect_robust returns to caller r, which assigns rabbitmq_connection and
\* goes on to the second if; or it raises and the globals stay as they are.
ChannelConnected(r) ==
    /\ req[r].ep = "channel" /\ req[r].pc = "connect"
    /\ \/ LET m == [mq EXCEPT !.connection = Some(Connection(r)),
                              !.open = @ \cup { Connection(r) }]
          IN /\ mq' = m
             /\ req' = [req EXCEPT ![r] = SecondIf(r, m)]
       \/ /\ req' = [req EXCEPT ![r] = Raised(r, "connect")]
          /\ UNCHANGED mq
    /\ UNCHANGED <<files, ops, store, events>>

\* channel() returns to caller r, which assigns rabbitmq_channel and returns
\* it; or it raises.
ChannelOpened(r) ==
    /\ req[r].ep = "channel" /\ req[r].pc = "channel"
    /\ \/ LET channel == Channel(Val(req[r].connection), r)
          IN /\ mq' = [mq EXCEPT !.channel = Some(channel)]
             /\ req' = [req EXCEPT ![r] =
                          [req[r] EXCEPT !.pc = "done", !.body = Some(channel),
                                         !.resp = Response(200, "channel")]]
       \/ /\ req' = [req EXCEPT ![r] = Raised(r, "channel")]
          /\ UNCHANGED mq
    /\ UNCHANGED <<files, ops, store, events>>

\* shutdown_event, after the last handler has ended: closes the connection
\* rabbitmq_connection names, and no other.
shutdown_event ==
    /\ \A r \in Requests : req[r].pc = "done"
    /\ mq.connection # None /\ Val(mq.connection) \in mq.open
    /\ mq' = [mq EXCEPT !.open = @ \ { Val(mq.connection) },
                        !.closed = @ \cup { Val(mq.connection) }]
    /\ UNCHANGED <<files, ops, store, events, req>>

NextChannel ==
    \/ \E r \in Requests :
          ChannelEnter(r) \/ ChannelConnected(r) \/ ChannelOpened(r)
    \/ shutdown_event

SpecChannel == Init /\ [][NextChannel]_vars

(***************************************************************************)
(* The broker connection (SpecChannel).                                    *)
(***************************************************************************)
\* C26 (as claimed): under every interleaving of the callers of
\* get_rabbitmq_channel the process has at most one broker connection open,
\* every open connection is the one rabbitmq_connection names (none was
\* opened and then dropped unclosed), and a rabbitmq_channel that is set is
\* a channel of the connection rabbitmq_connection names.
C26_OneConnectionAndItsChannel ==
    /\ Cardinality(mq.open) <= 1
    /\ \A c \in mq.open : mq.connection = Some(c)
    /\ mq.channel # None =>
          /\ mq.connection # None
          /\ Val(mq.channel).connection = Val(mq.connection)

(***************************************************************************)
(* Upload validation (Spec).                                               *)
(***************************************************************************)
\* Request r is an upload of a file above the size limit / of a type that
\* is not allowed.
TooLarge(r) == req[r].ep = "upload" /\ req[r].upload.size > MAX_FILE_SIZE
BadType(r) ==
    req[r].ep = "upload" /\ req[r].upload.mime \notin ALLOWED_MIME_TYPES

\* Nothing in the artifact store, the files collection or the published
\* events carries an identifier drawn by request r.
NoTraceOf(r) ==
    /\ \A loc \in DOMAIN store : loc[2][1][1] # r
    /\ \A f \in files : f.file_id[1] # r
    /\ \A e \in events : e.id[1] # r

\* C27: an upload of a file above MAX_FILE_SIZE is answered 413 and one of
\* a type outside ALLOWED_MIME_TYPES 415; the step that rejects it changes
\* neither the store nor the files collection nor the events, and nothing of
\* that request is ever stored, recorded or announced.  A file of exactly
\* MAX_FILE_SIZE bytes is not answered 413.
C27_RejectedUploadChangesNothing ==
    /\ [](\A r \in Requests :
            /\ TooLarge(r) \/ BadType(r) =>
                  /\ req[r].pc = "done"
                  /\ req[r].resp.code = (IF TooLarge(r) THEN 413 ELSE 415)
                  /\ NoTraceOf(r)
            /\ req[r].ep = "upload" /\ req[r].upload.size = MAX_FILE_SIZE =>
                  req[r].resp.code # 413)
    /\ [][\A r \in Requests :
            (TooLarge(r) \/ BadType(r))' /\ req[r].pc = "idle" =>
               UNCHANGED <<files, store, events>>]_vars

\* C27 witness: beside a stored, recorded and announced upload of exactly
\* MAX_FILE_SIZE bytes, one upload was rejected for its size and one for its
\* type.
C27_Witness ==
    \E a, b, c \in Requests :
       /\ req[a].ep = "upload" /\ req[a].upload.size = MAX_FILE_SIZE
       /\ req[a].resp.code = 200 /\ ~ NoTraceOf(a)
       /\ TooLarge(b) /\ req[b].resp.code = 413
       /\ BadType(c) /\ req[c].resp.code = 415
       /\ files # {} /\ events # {}

(***************************************************************************)
(* upload-service: POST /upload/batch.  upload_multiple_files calls        *)
(* upload_file for each file in turn; the steps of upload_file are those   *)
(* of POST /upload.  A file stands for its filename in the entries.       *)
(***************************************************************************)
MaxBatch == 2

\* Files a client may send in a batch, and the batches.
BatchFiles ==
    { Doc("application/pdf", 1024, ""), Doc("application/x-dosexec", 1024, "") }
Batches ==
    UNION { [1 .. n -> BatchFiles] : n \in 1 .. MaxBatch }

\* responses.append(response): the UploadResponse of upload_file.
UploadResponse(file, file_id) ==
    [upload |-> file, file_id |-> Some(file_id), status |-> "uploaded",
     error |-> ""]

\* responses.append({"original_filename": ..., "status": "error",
\*                   "error": e.detail})
ErrorEntry(file, detail) ==
    [upload |-> file, file_id |-> None, status |-> "error", error |-> detail]

\* Faulty variant: the loop ends at the first error entry.
BatchAppend_stops_at_error(r, entry) ==
    LET responses == Append(req[r].responses, entry) IN
    IF Len(responses) = Len(req[r].uploads) \/ entry.status = "error"
    THEN [req[r] EXCEPT !.responses = responses, !.pc = "done"]
    ELSE [req[r] EXCEPT !.responses = responses, !.pc = "put"]

\* The entry of the current file is appended; the loop goes on to the next
\* file, or the handler returns responses after the last one (what the
\* framework makes of the returned list is not part of the handler).
BatchAppend(r, entry) ==
    LET responses == Append(req[r].responses, entry) IN
    IF Len(responses) = Len(req[r].uploads)
    THEN [req[r] EXCEPT !.responses = responses, !.pc = "done"]
    ELSE [req[r] EXCEPT !.responses = responses, !.pc = "put"]

\* The file the loop is at, and the file_id upload_file draws for it.
BatchIndex(r) == Len(req[r].responses) + 1
BatchFile(r) == req[r].uploads[BatchIndex(r)]
BatchFileId(r) == uuid4(r, BatchIndex(r))

\* The batch request arrives with its files.
BatchReceive(r) ==
    /\ Arrives(r)
    /\ \E uploads \in Batches :
          req' = [req EXCEPT ![r] =
                    [req[r] EXCEPT !.ep = "batch", !.uploads = uploads,
                                   !.pc = "put"]]
    /\ UNCHANGED <<files, ops, store, events, mq>>

\* upload_file of the current file: validate_file, file_id = uuid4(), then
\* save_to_minio.  The HTTPException upload_file raises becomes the error
\* entry of that file.
BatchPut(r) ==
    /\ req[r].ep = "batch" /\ req[r].pc = "put"
    /\ LET file == BatchFile(r)
           v == validate_file(file) IN
       \/ /\ v # None
          /\ req' = [req EXCEPT ![r] = BatchAppend(r, ErrorEntry(file, Val(v).detail))]
          /\ UNCHANGED store
       \/ /\ v = None
          /\ store' = (<<"pdf-uploads", <<BatchFileId(r), "a.pdf">>>> :> file) @@ store
          /\ req' = [req EXCEPT ![r].pc = "insert"]
       \/ /\ v = None
          /\ req' = [req EXCEPT ![r] = BatchAppend(r, ErrorEntry(file, Str(S3Error)))]
          /\ UNCHANGED store
    /\ UNCHANGED <<files, ops, events, mq>>

\* files_collection.insert_one(metadata.dict()) for the current file.
BatchInsert(r) ==
    /\ req[r].ep = "batch" /\ req[r].pc = "insert"
    /\ \/ /\ files' = files \cup
                { FileRecord(BatchFileId(r), None, None, "pdf-uploads",
                             <<BatchFileId(r), "a.pdf">>, BatchFile(r).mime,
                             BatchFile(r).size) }
          /\ req' = [req EXCEPT ![r].pc = "publish"]
       \/ /\ req' = [req EXCEPT ![r] =
                       BatchAppend(r, ErrorEntry(BatchFile(r), Str(DbError)))]
          /\ UNCHANGED files
    /\ UNCHANGED <<ops, store, events, mq>>

\* publish_message("file.uploaded", ...) for the current file, then its
\* response is appended.
BatchPublish(r) ==
    /\ req[r].ep = "batch" /\ req[r].pc = "publish"
    /\ \/ /\ events' = events \cup { Event("file.uploaded", BatchFileId(r), TRUE) }
          /\ req' = [req EXCEPT ![r] =
                       BatchAppend(r, UploadResponse(BatchFile(r), BatchFileId(r)))]
       \/ /\ events' = events \cup { Event("file.uploaded", BatchFileId(r), FALSE) }
          /\ req' = [req EXCEPT ![r] =
                       BatchAppend(r, ErrorEntry(BatchFile(r), Str(AmqpError)))]
    /\ UNCHANGED <<files, ops, store, mq>>

NextBatch ==
    \E r \in Requests :
       BatchReceive(r) \/ BatchPut(r) \/ BatchInsert(r) \/ BatchPublish(r)

SpecBatch == Init /\ [][NextBatch]_vars

(***************************************************************************)
(* Batch upload (SpecBatch).                                               *)
(***************************************************************************)
\* Request r is a batch upload.
Batch(r) == req[r].ep = "batch"

\* File k of the batch of request r is stored, recorded and announced.
Uploaded(r, k) ==
    LET loc == <<"pdf-uploads", <<uuid4(r, k), "a.pdf">>>> IN
    /\ loc \in DOMAIN store /\ store[loc] = req[r].uploads[k]
    /\ \E f \in files : f.file_id = uuid4(r, k) /\ f.object_name = loc[2]
    /\ Event("file.uploaded", uuid4(r, k), TRUE) \in events

====
